---- MODULE Spec2Model ----
(***************************************************************************)
(* A model of filter_converter.py, the Thunderbird -> Sieve filter         *)
(* converter.                                                              *)
(*                                                                         *)
(* Text is modelled as a sequence of tokens.  The tokens "(", ")", ",",    *)
(* " " (one white-space character), the double quote and the backslash     *)
(* stand for themselves, and so do "/" and "." in a folder path; every     *)
(* other token ("from", "begins with", "x", "INBOX", ...) stands for a run *)
(* of characters none of which is one of those, which the code only ever   *)
(* compares, copies or lower-cases as a whole.  A line of the filter file  *)
(* is modelled after strip() and split('=', 1): its key, and its value as  *)
(* a token sequence.                                                       *)
(*                                                                         *)
(* There are three specifications, one per function of the pipeline:       *)
(*   SpecParse  parse_thunderbird_filters on bounded filter files          *)
(*   SpecCond   convert_condition on bounded condition expressions         *)
(*   Spec       convert_to_sieve on bounded filter records                 *)
(***************************************************************************)
EXTENDS Integers, Sequences, FiniteSets, TLC

VARIABLES
    pc,                  \* "start" before the call, "done" after it
    thunderbird_filters, \* parse_thunderbird_filters: the input lines
    filters,             \* parse_thunderbird_filters: the returned list
    raised,              \* TRUE when the call ended in an exception
    _condition,          \* convert_condition: the raw expression
    operator,            \* convert_condition: the returned combinator
    sieve_conditions,    \* convert_condition: the returned statements
    console,             \* convert_condition: the diagnostics printed
    thunderbird_filter,  \* convert_to_sieve: the input record
    sieve_rule           \* convert_to_sieve: the returned block

vars == <<pc, thunderbird_filters, filters, raised, _condition, operator,
          sieve_conditions, console, thunderbird_filter, sieve_rule>>

(***************************************************************************)
(* Bounds of the model.                                                    *)
(***************************************************************************)
MaxLines == 4
MaxTerms == 2
MaxActions == 2

(***************************************************************************)
(* Tokens and string helpers.                                              *)
(***************************************************************************)
QUOTE == "\""
BACKSLASH == "\\"
SPACE == " "

\* s.startswith(p)
StartsWith(s, p) == Len(s) >= Len(p) /\ SubSeq(s, 1, Len(p)) = p

\* s[n:]
Drop(s, n) == SubSeq(s, n + 1, Len(s))

\* the number of leading / trailing tokens of s that are in cs
RECURSIVE LeadIn(_, _)
LeadIn(s, cs) ==
    IF s # <<>> /\ Head(s) \in cs THEN 1 + LeadIn(Tail(s), cs) ELSE 0

RECURSIVE TrailIn(_, _)
TrailIn(s, cs) ==
    IF s # <<>> /\ s[Len(s)] \in cs
    THEN 1 + TrailIn(SubSeq(s, 1, Len(s) - 1), cs) ELSE 0

\* s.strip(cs): every leading and trailing character in cs is removed
StripChars(s, cs) ==
    LET a == LeadIn(s, cs)
        t == SubSeq(s, a + 1, Len(s))
    IN  SubSeq(t, 1, Len(t) - TrailIn(t, cs))

\* s.strip()
Strip(s) == StripChars(s, {SPACE})

\* s.replace('\\"', '"'): left to right, non-overlapping
RECURSIVE Unescape(_)
Unescape(s) ==
    IF s = <<>> THEN <<>>
    ELSE IF Len(s) >= 2 /\ s[1] = BACKSLASH /\ s[2] = QUOTE
         THEN <<QUOTE>> \o Unescape(Drop(s, 2))
         ELSE <<Head(s)>> \o Unescape(Tail(s))

\* clean_header(header)
clean_header(header) == StripChars(Unescape(header), {QUOTE})

(***************************************************************************)
(* Python dictionaries: a function from the keys present to their values.  *)
(* A value is a string, Str(s), or a list of strings, Lst(l).              *)
(***************************************************************************)
Str(s) == [str |-> s]
Lst(l) == [list |-> l]
IsList(v) == "list" \in DOMAIN v
None == [none |-> TRUE]
EmptyDict == [k \in {} |-> Str(<<>>)]
Has(d, k) == k \in DOMAIN d
Put(d, k, v) == (k :> v) @@ d

(***************************************************************************)
(* parse_thunderbird_filters.  A line is modelled after line.strip():      *)
(* kind "blank" (empty), "noeq" (non-empty, no '=') or "kv" (key, value    *)
(* the two halves of line.split('=', 1)).  line.startswith('name=') holds  *)
(* exactly for the "kv" lines whose key is "name".                         *)
(***************************************************************************)
BlankLine == [kind |-> "blank", key |-> "", value |-> <<>>]
NoEqLine == [kind |-> "noeq", key |-> "", value |-> <<>>]
KV(k, v) == [kind |-> "kv", key |-> k, value |-> v]

\* the test of lines 24 and 40
Complete(current_filter) ==
    /\ current_filter # EmptyDict
    /\ Has(current_filter, "name")
    /\ Has(current_filter, "condition")

\* lines 23-26: a record-start line finalizes or discards the record so far
StartRecord(st, line) ==
    IF line.kind = "kv" /\ line.key = "name"
    THEN [st EXCEPT
            !.filters = IF Complete(st.current_filter)
                        THEN Append(@, st.current_filter) ELSE @,
            !.current_filter = EmptyDict]
    ELSE st

\* lines 27-37: store the field of a key/value line
StoreField(st, line) ==
    IF line.kind # "kv" THEN st
    ELSE LET value == StripChars(line.value, {QUOTE})
             cf == st.current_filter
         IN  IF line.key = "action"
             THEN LET withList == IF Has(cf, "actions") THEN cf
                                  ELSE Put(cf, "actions", Lst(<<>>))
                  IN  IF IsList(withList["actions"])
                      THEN [st EXCEPT !.current_filter =
                              Put(withList, "actions",
                                  Lst(Append(withList["actions"].list, value)))]
                      \* str has no append(): AttributeError
                      ELSE [st EXCEPT !.raised = TRUE]
             ELSE [st EXCEPT !.current_filter = Put(cf, line.key, Str(value))]

\* lines 19-37: the body of the loop for one line
ParseLine(st, line) ==
    IF st.raised \/ line.kind = "blank" THEN st
    ELSE StoreField(StartRecord(st, line), line)

RECURSIVE ParseLoop(_, _)
ParseLoop(st, lines) ==
    IF lines = <<>> THEN st
    ELSE ParseLoop(ParseLine(st, Head(lines)), Tail(lines))

\* lines 15-43
parse_thunderbird_filters(lines) ==
    LET st == ParseLoop([filters |-> <<>>, current_filter |-> EmptyDict,
                         raised |-> FALSE], lines)
    IN  IF st.raised THEN [raised |-> TRUE, filters |-> <<>>]
        ELSE [raised |-> FALSE,
              filters |-> IF Complete(st.current_filter)
                          THEN Append(st.filters, st.current_filter)
                          ELSE st.filters]

(***************************************************************************)
(* re.findall(r'\(([^,]+),\s*([^,]+),\s*(.+?)\)', condition), with the     *)
(* priorities of Python's backtracking matcher.                            *)
(***************************************************************************)
\* the least index >= i of s holding the token c, or 0
RECURSIVE IndexFrom(_, _, _)
IndexFrom(s, i, c) ==
    IF i > Len(s) THEN 0
    ELSE IF s[i] = c THEN i ELSE IndexFrom(s, i + 1, c)

\* \s*(.+?)\) after the second comma: \s* is greedy and gives white space
\* back one character at a time; .+? takes the fewest characters, at least
\* one, that end before a ")".  k is where the value starts.
RECURSIVE MatchValue(_, _, _)
MatchValue(s, k, lo) ==
    IF k < lo THEN [ok |-> FALSE]
    ELSE LET p == IndexFrom(s, k + 1, ")")
         IN  IF k <= Len(s) /\ p # 0
             THEN [ok |-> TRUE, value |-> SubSeq(s, k, p - 1), end |-> p]
             ELSE MatchValue(s, k - 1, lo)

\* one attempt of the pattern at position i
MatchAt(s, i) ==
    IF s[i] # "(" THEN [ok |-> FALSE]
    ELSE LET c1 == IndexFrom(s, i + 1, ",")
         IN  IF c1 = 0 \/ c1 = i + 1 THEN [ok |-> FALSE]
             ELSE LET c2 == IndexFrom(s, c1 + 1, ",")
                  IN  IF c2 = 0 \/ c2 = c1 + 1 THEN [ok |-> FALSE]
                      ELSE LET r == SubSeq(s, c1 + 1, c2 - 1)
                               w == LeadIn(r, {SPACE})
                               \* [^,]+ needs one character: an all-blank
                               \* field keeps its last blank
                               op == IF w < Len(r) THEN Drop(r, w)
                                     ELSE <<r[Len(r)]>>
                               w3 == LeadIn(Drop(s, c2), {SPACE})
                               m == MatchValue(s, c2 + 1 + w3, c2 + 1)
                           IN  IF m.ok
                               THEN [ok |-> TRUE,
                                     part |-> [header |-> SubSeq(s, i + 1, c1 - 1),
                                               operation |-> op,
                                               value |-> m.value],
                                     end |-> m.end]
                               ELSE [ok |-> FALSE]

\* the non-overlapping matches, left to right
RECURSIVE FindAll(_, _)
FindAll(s, i) ==
    IF i > Len(s) THEN <<>>
    ELSE LET m == MatchAt(s, i)
         IN  IF m.ok THEN <<m.part>> \o FindAll(s, m.end + 1)
             ELSE FindAll(s, i + 1)

(***************************************************************************)
(* convert_condition.  A statement f'header {test} "{hdr}" "{val}"' is the *)
(* record of its three holes.                                              *)
(***************************************************************************)
Stmt(test, hdr, val) == [test |-> test, header |-> hdr, value |-> val]

\* Combinator with the default of line 62 turned into 'allof'
Combinator_DefaultAllOf(condition) ==
    IF StartsWith(condition, <<"OR", SPACE>>)
    THEN [operator |-> "anyof", condition |-> Drop(condition, 2)]
    ELSE IF StartsWith(condition, <<"AND", SPACE>>)
         THEN [operator |-> "allof", condition |-> Drop(condition, 2)]
         ELSE [operator |-> "allof", condition |-> condition]

\* lines 55-62: the combinator and the expression the terms are taken from
Combinator(condition) ==
    IF StartsWith(condition, <<"OR", SPACE>>)
    THEN [operator |-> "anyof", condition |-> Drop(condition, 2)]
    ELSE IF StartsWith(condition, <<"AND", SPACE>>)
         THEN [operator |-> "allof", condition |-> Drop(condition, 2)]
         ELSE [operator |-> "anyof", condition |-> condition]

\* lines 74-91: the statements one term appends
TermStatements(header, operation, value) ==
    IF operation = <<"is">>
    THEN IF header = <<"from">>
         THEN <<Stmt(":is", <<"From">>, value)>> ELSE <<>>
    ELSE IF operation = <<"contains">>
    THEN IF header = <<"from">>
         THEN <<Stmt(":contains", <<"From">>, value)>>
         ELSE IF header = <<"subject">>
              THEN <<Stmt(":contains", <<"Subject">>, value)>>
              ELSE <<Stmt(":contains", header, value)>>
    ELSE IF operation = <<"begins with">>
    THEN IF header = <<"from">>
         THEN <<Stmt(":matches", <<"From">>, value \o <<"*">>)>>
         ELSE IF header = <<"subject">>
              THEN <<Stmt(":matches", <<"Subject">>, value \o <<"*">>)>>
              ELSE <<>>
    ELSE IF operation = <<"ends with">>
    THEN IF header = <<"from">>
         THEN <<Stmt(":matches", <<"From">>, <<"*">> \o value)>> ELSE <<>>
    ELSE <<>>

\* lines 74, 77, 84, 89, 92: the operations the if/elif chain names
KnownOperations == {<<"is">>, <<"contains">>, <<"begins with">>, <<"ends with">>}

\* lines 73 and 92-93: what one term prints
TermConsole(header, operation, value) ==
    <<[kind |-> "header operation value", header |-> header,
       operation |-> operation]>>
    \o IF operation \in KnownOperations THEN <<>>
       ELSE <<[kind |-> "unhandled header/operation", header |-> header,
               operation |-> operation]>>

\* lines 67-93: the loop over the extracted terms
RECURSIVE ConvertTerms(_)
ConvertTerms(parts) ==
    IF parts = <<>> THEN [conditions |-> <<>>, console |-> <<>>]
    ELSE LET header == clean_header(Head(parts).header)
             value == clean_header(Head(parts).value)
             operation == Head(parts).operation
             rest == ConvertTerms(Tail(parts))
         IN  [conditions |-> TermStatements(header, operation, value)
                             \o rest.conditions,
              console |-> TermConsole(header, operation, value)
                          \o rest.console]

\* lines 51-98
convert_condition(cond) ==
    LET c == Combinator(Strip(cond))
        parts == FindAll(c.condition, 1)
        t == ConvertTerms(parts)
    IN  [operator |-> c.operator,
         sieve_conditions |-> t.conditions,
         parts |-> parts,
         console |-> t.console
                     \o IF Len(t.conditions) = 0
                        THEN <<[kind |-> "unhandled condition",
                                header |-> <<>>, operation |-> <<>>]>>
                        ELSE <<>>]

(***************************************************************************)
(* convert_to_sieve.  A folder path is a token sequence in which "/" and   *)
(* "." stand for themselves and every other token is a run of other        *)
(* characters.  An action statement is the record of its keyword and its   *)
(* argument; a rule block is the sequence of its lines, each the record of *)
(* whether it starts with '#', what it says and the values it embeds.      *)
(***************************************************************************)
\* str.lower() on one token
LowerToken(t) ==
    CASE t \in {"INBOX", "Inbox"} -> "inbox"
      [] t = "MyInbox" -> "myinbox"
      [] t = "Trash" -> "trash"
      [] t = "Foo" -> "foo"
      [] t = "Bar" -> "bar"
      [] t = "Baz" -> "baz"
      [] t = "Archive" -> "archive"
      [] OTHER -> t

\* full_path.lower()
Lower(s) == [i \in 1..Len(s) |-> LowerToken(s[i])]

\* the tokens whose last characters are 'inbox'
EndsWithInbox(t) == t \in {"inbox", "myinbox"}

\* re.search(r'inbox/(.+)$', s): the leftmost 'inbox/' that something
\* follows; group(1) is the rest of s.  0 when there is no match.
RECURSIVE InboxMatch(_, _)
InboxMatch(s, i) ==
    IF i + 2 > Len(s) THEN 0
    ELSE IF EndsWithInbox(s[i]) /\ s[i + 1] = "/" THEN i
         ELSE InboxMatch(s, i + 1)

\* folder.replace('.', '-').replace('/', '.')
FolderName(folder) ==
    LET dashed == [i \in 1..Len(folder) |->
                      IF folder[i] = "." THEN "-" ELSE folder[i]]
    IN  [i \in 1..Len(dashed) |-> IF dashed[i] = "/" THEN "." ELSE dashed[i]]

\* '/Trash/' in full_path
InTrash(full_path) ==
    \E i \in 1..(Len(full_path) - 2) :
        full_path[i] = "/" /\ full_path[i + 1] = "Trash" /\ full_path[i + 2] = "/"

Action(stmt, arg) == [stmt |-> stmt, arg |-> arg]

\* "kw" in thunder_actions
InActions(kw, thunder_actions) ==
    \E i \in 1..Len(thunder_actions) : thunder_actions[i] = <<kw>>

\* lines 118-125: the "Move to folder" action
MoveToFolder(thunder_value) ==
    \* None has no lower(): AttributeError
    IF thunder_value = None
    THEN [raised |-> TRUE, actions |-> <<>>, hint |-> <<>>]
    ELSE LET full_path == thunder_value.str
             low == Lower(full_path)
             m == InboxMatch(low, 1)
         IN  IF m # 0
             THEN [raised |-> FALSE,
                   actions |-> <<Action("fileinto",
                                   <<"INBOX", ".">> \o FolderName(Drop(low, m + 1)))>>,
                   hint |-> <<>>]
             ELSE IF InTrash(full_path)
                  THEN [raised |-> FALSE, actions |-> <<>>,
                        hint |-> <<"rule deactivated because target is Trash">>
                                 \o full_path]
                  ELSE [raised |-> FALSE, actions |-> <<>>, hint |-> <<>>]

\* lines 111-125: the action statements, in the order the code appends them
TranslateActions(has_actions, thunder_actions, thunder_value) ==
    IF ~has_actions THEN [raised |-> FALSE, actions |-> <<>>, hint |-> <<>>]
    ELSE LET seen == IF InActions("Mark read", thunder_actions)
                     THEN <<Action("setflag", <<"Seen">>)>> ELSE <<>>
             flagged == IF InActions("Mark flagged", thunder_actions)
                        THEN <<Action("setflag", <<"Flagged">>)>> ELSE <<>>
             stop == IF InActions("Stop execution", thunder_actions)
                     THEN <<Action("stop", <<>>)>> ELSE <<>>
             move == IF InActions("Move to folder", thunder_actions)
                     THEN MoveToFolder(thunder_value)
                     ELSE [raised |-> FALSE, actions |-> <<>>, hint |-> <<>>]
         IN  [raised |-> move.raised,
              actions |-> seen \o flagged \o stop \o move.actions,
              hint |-> move.hint]

Line(commented, what, arg) == [commented |-> commented, what |-> what, arg |-> arg]

\* lines 131-138
UnconvertibleBlock(name, condition, op, conds, actions) ==
    <<Line(TRUE, "WARNING: condition not convertable", <<>>),
      Line(TRUE, "condition", condition),
      Line(TRUE, "rule", name),
      Line(TRUE, "if", op)>>
    \o (IF conds = <<>> THEN <<Line(TRUE, "no test", <<>>)>>
        ELSE [i \in 1..Len(conds) |-> Line(TRUE, "test", conds[i])])
    \o <<Line(TRUE, ")", <<>>), Line(TRUE, "{", <<>>)>>
    \o (IF actions = <<>> THEN <<Line(TRUE, "no statement", <<>>)>>
        ELSE [i \in 1..Len(actions) |-> Line(TRUE, "statement", actions[i])])
    \o <<Line(TRUE, "}", <<>>)>>

\* NoActionBlock emitting the rule with an empty action body instead
NoActionBlock_EmptyRule(name, condition, hint, thunder_actions, thunder_value) ==
    <<Line(TRUE, "rule", name), Line(FALSE, "if", "anyof"),
      Line(FALSE, "test", condition),
      Line(FALSE, ")", <<>>), Line(FALSE, "{", <<>>), Line(FALSE, "}", <<>>)>>

\* lines 140-147
NoActionBlock(name, condition, hint, thunder_actions, thunder_value) ==
    <<Line(TRUE, "WARNING: rule has no action", <<>>),
      Line(TRUE, "rule", name)>>
    \o (IF hint # <<>> THEN <<Line(TRUE, "hint", hint)>> ELSE <<>>)
    \o <<Line(TRUE, "conditions", condition),
         Line(TRUE, "actions", thunder_actions),
         Line(TRUE, "values", thunder_value)>>

\* lines 149-152
ActiveBlock(name, op, conds, actions) ==
    <<Line(TRUE, "rule", name), Line(FALSE, "if", op)>>
    \o [i \in 1..Len(conds) |-> Line(FALSE, "test", conds[i])]
    \o <<Line(FALSE, ")", <<>>), Line(FALSE, "{", <<>>)>>
    \o [i \in 1..Len(actions) |-> Line(FALSE, "statement", actions[i])]
    \o <<Line(FALSE, "}", <<>>)>>

\* lines 101-154
convert_to_sieve(f) ==
    LET name == IF Has(f, "name") THEN f["name"].str ELSE <<"Unnamed Filter">>
        condition == IF Has(f, "condition") THEN f["condition"].str ELSE <<>>
        thunder_actions == IF Has(f, "actions") THEN f["actions"].list ELSE <<>>
        thunder_value == IF Has(f, "actionValue") THEN f["actionValue"] ELSE None
        a == TranslateActions(Has(f, "actions"), thunder_actions, thunder_value)
        c == convert_condition(condition)
    IN  IF a.raised
        THEN [raised |-> TRUE, sieve_rule |-> <<>>, console |-> <<>>,
              operator |-> "", sieve_conditions |-> <<>>]
        ELSE [raised |-> FALSE,
              console |-> c.console,
              operator |-> c.operator,
              sieve_conditions |-> c.sieve_conditions,
              sieve_rule |->
                IF Len(c.sieve_conditions) = 0
                THEN UnconvertibleBlock(name, condition, c.operator,
                                        c.sieve_conditions, a.actions)
                ELSE IF Len(a.actions) = 0
                     THEN NoActionBlock(name, condition, a.hint,
                                        thunder_actions, thunder_value)
                     ELSE ActiveBlock(name, c.operator, c.sieve_conditions,
                                      a.actions)]

(***************************************************************************)
(* The inputs of the three specifications.                                 *)
(***************************************************************************)
\* the sequences over S of length lo..hi
SeqsOf(S, lo, hi) == UNION {[1..n -> S] : n \in lo..hi}

Quoted(s) == <<QUOTE>> \o s \o <<QUOTE>>

\* the lines of a filter file
FileLines ==
    {BlankLine, NoEqLine,
     KV("name", Quoted(<<"A">>)), KV("name", Quoted(<<"B">>)),
     KV("condition", Quoted(<<"c">>)),
     KV("action", Quoted(<<"Mark read">>)),
     KV("actions", Quoted(<<"x">>)),
     KV("actionValue", Quoted(<<"v">>)),
     KV("enabled", Quoted(<<"true">>))}

Term(h, o, v) == <<"(">> \o h \o <<",">> \o o \o <<",">> \o v \o <<")">>

Headers == {<<"from">>, <<"subject">>, <<"to or cc">>}
Operations == {<<"is">>, <<"contains">>, <<"begins with">>, <<"ends with">>,
               <<"doesn't contain">>}

\* the terms of a condition expression: every header with every operation,
\* a quoted and an escaped value, blanks after the commas, a term of two
\* fields
Terms ==
    {Term(h, o, <<"x">>) : h \in Headers, o \in Operations}
    \cup {Term(<<"from">>, <<"contains">>, Quoted(<<"x">>)),
          Term(<<"from">>, <<"is">>, <<BACKSLASH, QUOTE, "x", BACKSLASH, QUOTE>>),
          Term(<<"from">>, <<SPACE, "is">>, <<SPACE, "x">>),
          <<"(", "from", ",", "is", ")">>}

Markers == {<<>>, <<"OR", SPACE>>, <<"AND", SPACE>>, <<"AND">>}

\* marker term marker term ..., as Thunderbird writes an expression
RECURSIVE Expression(_, _)
Expression(marker, terms) ==
    IF terms = <<>> THEN marker
    ELSE IF Len(terms) = 1 THEN marker \o terms[1]
         ELSE marker \o terms[1] \o <<SPACE>> \o Expression(marker, Tail(terms))

Expressions ==
    {lead \o Expression(m, ts) :
        lead \in {<<>>, <<SPACE>>}, m \in Markers, ts \in SeqsOf(Terms, 0, MaxTerms)}

\* the condition expressions of the records given to convert_to_sieve
RuleConditions ==
    {<<>>,
     Expression(<<"AND", SPACE>>, <<Term(<<"from">>, <<"contains">>, <<"x">>)>>),
     Expression(<<"OR", SPACE>>, <<Term(<<"subject">>, <<"begins with">>, <<"x">>)>>),
     Expression(<<>>, <<Term(<<"to or cc">>, <<"contains">>, <<"x">>)>>),
     Expression(<<>>, <<Term(<<"subject">>, <<"is">>, <<"x">>)>>),
     Expression(<<>>, <<Term(<<"from">>, <<"doesn't contain">>, <<"x">>)>>),
     Expression(<<"AND", SPACE>>, <<Term(<<"from">>, <<"contains">>, <<"x">>),
                                   Term(<<"subject">>, <<"is">>, <<"x">>)>>),
     Expression(<<"AND", SPACE>>, <<Term(<<"from">>, <<"is">>, <<"x">>),
                                   Term(<<"subject">>, <<"contains">>, <<"x">>)>>)}

ActionKeywords == {<<"Mark read">>, <<"Mark flagged">>, <<"Stop execution">>,
                   <<"Move to folder">>, <<"Delete">>}

Server == <<"imap:", "/", "/", "u@h">>

\* the folder paths of an actionValue
FolderPaths ==
    {Server \o <<"/", "INBOX", "/", "Foo">>,
     Server \o <<"/", "Inbox", "/", "Foo", "/", "Bar", ".", "Baz">>,
     Server \o <<"/", "Trash", "/", "Foo">>,
     Server \o <<"/", "INBOX", "/", "Trash", "/", "Foo">>,
     Server \o <<"/", "Trash">>,
     Server \o <<"/", "Archive">>,
     Server \o <<"/", "MyInbox", "/", "Foo">>,
     Server \o <<"/", "INBOX", "/">>}

\* the records parse_thunderbird_filters returns: a name, a condition, and
\* optionally an action list and an action value
Records ==
    {r @@ a @@ v :
        r \in {("name" :> Str(<<"A">>)) @@ ("condition" :> Str(c)) : c \in RuleConditions},
        a \in {EmptyDict} \cup {("actions" :> Lst(l)) : l \in SeqsOf(ActionKeywords, 1, MaxActions)},
        v \in {EmptyDict} \cup {("actionValue" :> Str(p)) : p \in FolderPaths}}

(***************************************************************************)
(* The state machines: each specification chooses an input and applies one *)
(* function to it.                                                         *)
(***************************************************************************)
Idle ==
    /\ pc = "start"
    /\ filters = <<>>
    /\ raised = FALSE
    /\ operator = ""
    /\ sieve_conditions = <<>>
    /\ console = <<>>
    /\ sieve_rule = <<>>

InitParse ==
    /\ Idle
    /\ thunderbird_filters \in SeqsOf(FileLines, 0, MaxLines)
    /\ _condition = <<>>
    /\ thunderbird_filter = EmptyDict

InitCond ==
    /\ Idle
    /\ thunderbird_filters = <<>>
    /\ _condition \in Expressions
    /\ thunderbird_filter = EmptyDict

Init ==
    /\ Idle
    /\ thunderbird_filters = <<>>
    /\ _condition = <<>>
    /\ thunderbird_filter \in Records

ParseFilters ==
    /\ pc = "start"
    /\ LET r == parse_thunderbird_filters(thunderbird_filters)
       IN  /\ raised' = r.raised
           /\ filters' = r.filters
    /\ pc' = "done"
    /\ UNCHANGED <<thunderbird_filters, _condition, operator, sieve_conditions,
                   console, thunderbird_filter, sieve_rule>>

ConvertCondition ==
    /\ pc = "start"
    /\ LET r == convert_condition(_condition)
       IN  /\ operator' = r.operator
           /\ sieve_conditions' = r.sieve_conditions
           /\ console' = r.console
    /\ pc' = "done"
    /\ UNCHANGED <<thunderbird_filters, filters, raised, _condition,
                   thunderbird_filter, sieve_rule>>

ConvertToSieve ==
    /\ pc = "start"
    /\ LET r == convert_to_sieve(thunderbird_filter)
       IN  /\ raised' = r.raised
           /\ sieve_rule' = r.sieve_rule
           /\ operator' = r.operator
           /\ sieve_conditions' = r.sieve_conditions
           /\ console' = r.console
    /\ pc' = "done"
    /\ UNCHANGED <<thunderbird_filters, filters, _condition, thunderbird_filter>>

NextParse == ParseFilters
NextCond == ConvertCondition
Next == ConvertToSieve

SpecParse == InitParse /\ [][NextParse]_vars
SpecCond == InitCond /\ [][NextCond]_vars
Spec == Init /\ [][Next]_vars

(***************************************************************************)
(* Vocabulary of the properties.                                           *)
(***************************************************************************)
IsNameLine(line) == line.kind = "kv" /\ line.key = "name"

\* the last line of the stanza that starts at line i
RECURSIVE StanzaEnd(_, _)
StanzaEnd(lines, i) ==
    IF i = Len(lines) \/ IsNameLine(lines[i + 1]) THEN i
    ELSE StanzaEnd(lines, i + 1)

\* the 'condition=' lines of the stanza that starts at line i
ConditionLines(lines, i) ==
    {j \in (i + 1)..StanzaEnd(lines, i) :
        lines[j].kind = "kv" /\ lines[j].key = "condition"}

\* the name of every stanza, from line i on, that has a condition field
RECURSIVE CompleteStanzas(_, _)
CompleteStanzas(lines, i) ==
    IF i > Len(lines) THEN <<>>
    ELSE (IF IsNameLine(lines[i]) /\ ConditionLines(lines, i) # {}
          THEN <<StripChars(lines[i].value, {QUOTE})>> ELSE <<>>)
         \o CompleteStanzas(lines, i + 1)

\* the names of the returned records
NamesOf(fs) == [i \in 1..Len(fs) |-> fs[i]["name"].str]

\* the three kinds of rule block, told apart by what the block says
AllCommented(b) == \A i \in 1..Len(b) : b[i].commented
Says(b, what) == \E i \in 1..Len(b) : b[i].what = what
\* b has the comment line that says `what` about arg
Lists(b, what, arg) == \E i \in 1..Len(b) :
    b[i].what = what /\ b[i].commented /\ b[i].arg = arg
IsActive(b) == \E i \in 1..Len(b) : ~b[i].commented /\ b[i].what = "if"
IsUnconvertible(b) ==
    AllCommented(b) /\ Says(b, "WARNING: condition not convertable")
IsNoAction(b) == AllCommented(b) /\ Says(b, "WARNING: rule has no action")

\* the statements of the action body of a block
Body(b) == SelectSeq(b, LAMBDA l : l.what = "statement")
HasFileinto(b) == \E i \in 1..Len(b) :
    b[i].what = "statement" /\ b[i].arg.stmt = "fileinto"

\* the fields of the record under conversion
RecCondition == thunderbird_filter["condition"].str
RecActions ==
    IF Has(thunderbird_filter, "actions")
    THEN thunderbird_filter["actions"].list ELSE <<>>
RecValue ==
    IF Has(thunderbird_filter, "actionValue")
    THEN thunderbird_filter["actionValue"] ELSE None
RecHas(kw) == InActions(kw, RecActions)

\* the terms the pattern extracts from an expression, cleaned
TermsOf(cond) ==
    LET parts == FindAll(Combinator(Strip(cond)).condition, 1)
    IN  [i \in 1..Len(parts) |->
            [header |-> clean_header(parts[i].header),
             operation |-> parts[i].operation,
             value |-> clean_header(parts[i].value)]]

\* the (header, operator) pairs of the mapping table
HasTableEntry(header, operation) ==
    \/ operation = <<"is">> /\ header = <<"from">>
    \/ operation = <<"contains">>
    \/ operation = <<"begins with">> /\ header \in {<<"from">>, <<"subject">>}
    \/ operation = <<"ends with">> /\ header = <<"from">>

\* the expression after trimming and without its leading marker
WithoutMarker(cond) ==
    LET c == Strip(cond)
    IN  IF StartsWith(c, <<"OR", SPACE>>) \/ StartsWith(c, <<"AND", SPACE>>)
        THEN Drop(c, 2) ELSE c

(***************************************************************************)
(* The properties.                                                         *)
(***************************************************************************)
\* C1 (SpecParse): parse_thunderbird_filters returns without raising, and
\* returns exactly the stanzas that have a name and a condition field, in
\* input order.
C1_ParseReturnsCompleteStanzas ==
    pc = "done" =>
        /\ ~raised
        /\ NamesOf(filters) = CompleteStanzas(thunderbird_filters, 1)

\* C2 (Spec): for every record with a name and a condition, whatever
\* optional fields are present, convert_to_sieve returns one rule block,
\* which is of exactly one of the three kinds.
C2_ExactlyOneBlockKind ==
    pc = "done" =>
        /\ ~raised
        /\ Cardinality({k \in {"unconvertible", "no action", "active"} :
              \/ k = "unconvertible" /\ IsUnconvertible(sieve_rule)
              \/ k = "no action" /\ IsNoAction(sieve_rule)
              \/ k = "active" /\ IsActive(sieve_rule)}) = 1

\* C3 (Spec): a record whose condition yields no condition statement gets
\* an Unconvertible-Condition block and never an Active Rule block, for
\* every action list and action value.
C3_NoConditionIsUnconvertible ==
    (pc = "done" /\ convert_condition(RecCondition).sieve_conditions = <<>>) =>
        IsUnconvertible(sieve_rule) /\ ~IsActive(sieve_rule)

\* the action list of the record translates, and to no statement at all
NoActionStatement ==
    LET a == TranslateActions(Has(thunderbird_filter, "actions"), RecActions, RecValue)
    IN  ~a.raised /\ a.actions = <<>>

C5_TrashMoveLeavesHint ==
    (/\ pc = "done"
     /\ RecHas("Move to folder")
     /\ Has(thunderbird_filter, "actionValue")
     /\ InTrash(thunderbird_filter["actionValue"].str)) =>
        /\ ~HasFileinto(sieve_rule)
        /\ Says(sieve_rule, "hint")

\* C6 (SpecCond): a 'to or cc' term with operator 'contains' yields two
\* statements in the condition list, a substring test on "to" and one on
\* "cc".
C6_ToOrCcTwoTests ==
    pc = "done" =>
        \A i \in 1..Len(TermsOf(_condition)) :
            LET t == TermsOf(_condition)[i]
            IN  (t.header = <<"to or cc">> /\ t.operation = <<"contains">>) =>
                    /\ \E j \in 1..Len(sieve_conditions) :
                          sieve_conditions[j] \in
                            {Stmt(":contains", <<h>>, t.value) : h \in {"to", "To"}}
                    /\ \E j \in 1..Len(sieve_conditions) :
                          sieve_conditions[j] \in
                            {Stmt(":contains", <<h>>, t.value) : h \in {"cc", "Cc"}}

\* C7 (SpecCond): every extracted term whose (header, operator) pair has
\* no entry in the mapping table gets an 'unhandled header/operation'
\* diagnostic.
C7_UnmappedTermDiagnosed ==
    pc = "done" =>
        \A i \in 1..Len(TermsOf(_condition)) :
            LET t == TermsOf(_condition)[i]
            IN  ~HasTableEntry(t.header, t.operation) =>
                    \E j \in 1..Len(console) :
                        console[j] = [kind |-> "unhandled header/operation",
                                      header |-> t.header,
                                      operation |-> t.operation]

\* C8 (Spec): a record with at least one untranslatable condition term
\* gets a commented block, never an Active Rule block.
C8_UntranslatableTermCommented ==
    (/\ pc = "done"
     /\ ~raised
     /\ \E i \in 1..Len(TermsOf(RecCondition)) :
           ~HasTableEntry(TermsOf(RecCondition)[i].header,
                          TermsOf(RecCondition)[i].operation)) =>
        AllCommented(sieve_rule) /\ ~IsActive(sieve_rule)

\* C9 (SpecCond): the combinator is allof exactly when the trimmed
\* expression starts with the AND marker and anyof otherwise, and the
\* statements are those of the expression without its leading marker.
C9_CombinatorFromMarker ==
    pc = "done" =>
        /\ operator = IF StartsWith(Strip(_condition), <<"AND", SPACE>>)
                      THEN "allof" ELSE "anyof"
        /\ sieve_conditions = convert_condition(WithoutMarker(_condition)).sieve_conditions

\* C9's case: an expression with blanks before its AND marker, two terms
\* translated
C9_Witness ==
    /\ pc = "done"
    /\ StartsWith(_condition, <<SPACE>>)
    /\ StartsWith(Strip(_condition), <<"AND", SPACE>>)
    /\ operator = "allof"
    /\ Len(sieve_conditions) = 2

\* C10 (Spec): in an Active Rule block of a record with the 'Stop
\* execution' action, the stop statement is the last statement of the body.
C10_StopIsLast ==
    (pc = "done" /\ IsActive(sieve_rule) /\ RecHas("Stop execution")) =>
        Body(sieve_rule)[Len(Body(sieve_rule))].arg.stmt = "stop"

====
